---- MODULE Spec2Model ----
(***************************************************************************)
(* Model of src/app.py: compare_files (with normalize_dates) as called     *)
(* from main.  Strings are sequences of one-character strings, so that     *)
(* str.lower, str.strip, the "_file1"/"_file2" suffixes and the            *)
(* "a | b" rendering are computed character by character.  A DataFrame is  *)
(* a record [columns, rows]: the ordered column labels and the rows as     *)
(* sequences of cells in column order.  DataFrame objects live in `heap`,  *)
(* the locals df1/df2 of compare_files are references into it, so that     *)
(* "returns a new frame" and "assigns in place" are different things.      *)
(***************************************************************************)
EXTENDS Integers, Sequences, FiniteSets, TLC

VARIABLES heap, df1, df2, config, columns_to_compare, date_columns,
          merged_df, summary, comparison_df, missing_in_file1,
          missing_in_file2, ret, pc, error, tieBreak, repeated, prevOutcome

vars == <<heap, df1, df2, config, columns_to_compare, date_columns,
          merged_df, summary, comparison_df, missing_in_file1,
          missing_in_file2, ret, pc, error, tieBreak, repeated, prevOutcome>>

(***************************************************************************)
(* Bounds of the model.                                                    *)
(***************************************************************************)
MaxRows == 2

(***************************************************************************)
(* String literals of the source, as character sequences.                  *)
(***************************************************************************)
KeyColumnName == <<"K","e","y","C","o","l","u","m","n">>
KeyColumnLower == <<"k","e","y","c","o","l","u","m","n">>
SuffixFile1 == <<"_","f","i","l","e","1">>
SuffixFile2 == <<"_","f","i","l","e","2">>
MergeName == <<"_","m","e","r","g","e">>
Both == <<"b","o","t","h">>
LeftOnly == <<"l","e","f","t","_","o","n","l","y">>
RightOnly == <<"r","i","g","h","t","_","o","n","l","y">>
Matched == <<"M","a","t","c","h","e","d">>
NotAvailable == <<"N","o","t"," ","A","v","a","i","l","a","b","l","e">>
Bar == <<" ","|"," ">>
DescriptionName == <<"D","e","s","c","r","i","p","t","i","o","n">>
CountName == <<"C","o","u","n","t">>
MatchedRecords == <<"M","a","t","c","h","e","d"," ","R","e","c","o","r","d","s">>
NotMatchedRecords ==
    <<"N","o","t"," ","M","a","t","c","h","e","d"," ","R","e","c","o","r","d","s">>

(***************************************************************************)
(* Python/pandas primitives.                                               *)
(***************************************************************************)
Range(s) == {s[i] : i \in DOMAIN s}

UpperChars == <<"A","B","C","D","E","F","G","H","I","J","K","L","M",
                "N","O","P","Q","R","S","T","U","V","W","X","Y","Z">>
LowerChars == <<"a","b","c","d","e","f","g","h","i","j","k","l","m",
                "n","o","p","q","r","s","t","u","v","w","x","y","z">>
DigitChars == <<"0","1","2","3","4","5","6","7","8","9">>
Whitespace == {" ", "\t", "\n"}

\* str.lower on one character, then on a string
LowerChar(c) ==
    IF \E i \in DOMAIN UpperChars : UpperChars[i] = c
    THEN LowerChars[CHOOSE i \in DOMAIN UpperChars : UpperChars[i] = c]
    ELSE c

Lower(s) == [i \in DOMAIN s |-> LowerChar(s[i])]

\* str.strip(): drop leading and trailing whitespace
RECURSIVE LStrip(_)
LStrip(s) ==
    IF s # <<>> /\ Head(s) \in Whitespace THEN LStrip(Tail(s)) ELSE s

RECURSIVE RStrip(_)
RStrip(s) ==
    IF s # <<>> /\ s[Len(s)] \in Whitespace
    THEN RStrip(SubSeq(s, 1, Len(s) - 1))
    ELSE s

Strip(s) == RStrip(LStrip(s))

\* decimal rendering of a non-negative int, and its inverse
RECURSIVE Digits(_)
Digits(n) ==
    IF n < 10 THEN <<DigitChars[n + 1]>>
    ELSE Digits(n \div 10) \o <<DigitChars[(n % 10) + 1]>>

DigitValue(c) == (CHOOSE i \in DOMAIN DigitChars : DigitChars[i] = c) - 1

RECURSIVE IntOf(_)
IntOf(s) ==
    IF Len(s) = 1 THEN DigitValue(s[1])
    ELSE 10 * IntOf(SubSeq(s, 1, Len(s) - 1)) + DigitValue(s[Len(s)])

(***************************************************************************)
(* Cells.  kind says what Python object the cell holds; v is its text      *)
(* (the characters of a str, the digits of an int, the ISO form of a       *)
(* datetime.date, the label of a categorical).  NaN, None and NaT are the  *)
(* three missing markers pandas can leave in a frame.                      *)
(***************************************************************************)
StrCell(s) == [kind |-> "str", v |-> s]
IntCell(n) == [kind |-> "int", v |-> Digits(n)]
DateCell(iso) == [kind |-> "date", v |-> iso]
CatCell(s) == [kind |-> "cat", v |-> s]
NaN == [kind |-> "NaN", v |-> <<>>]
NoneCell == [kind |-> "None", v |-> <<>>]
NaT == [kind |-> "NaT", v |-> <<>>]

\* Python str(x)
Str(c) ==
    CASE c.kind = "NaN" -> <<"n","a","n">>
      [] c.kind = "None" -> <<"N","o","n","e">>
      [] c.kind = "NaT" -> <<"N","a","T">>
      [] OTHER -> c.v

IsDigits(s) == \A i \in DOMAIN s : \E j \in DOMAIN DigitChars : DigitChars[j] = s[i]

\* "YYYY-MM-DD"
IsIsoDate(s) ==
    /\ Len(s) = 10
    /\ s[5] = "-" /\ s[8] = "-"
    /\ IsDigits(SubSeq(s, 1, 4)) /\ IsDigits(SubSeq(s, 6, 7))
    /\ IsDigits(SubSeq(s, 9, 10))

\* "MM/DD/YYYY" (month first, as dateutil reads it)
IsUsDate(s) ==
    /\ Len(s) = 10
    /\ s[3] = "/" /\ s[6] = "/"
    /\ IsDigits(SubSeq(s, 1, 2)) /\ IsDigits(SubSeq(s, 4, 5))
    /\ IsDigits(SubSeq(s, 7, 10))

\* pd.to_datetime(x, errors='coerce') followed by .dt.date, on one cell
ToDate(c) ==
    CASE c.kind = "date" -> c
      [] c.kind = "int" -> DateCell(<<"1","9","7","0","-","0","1","-","0","1">>)
      [] c.kind = "str" /\ IsIsoDate(Strip(c.v)) -> DateCell(Strip(c.v))
      [] c.kind = "str" /\ IsUsDate(Strip(c.v)) ->
            LET s == Strip(c.v)
            IN  DateCell(SubSeq(s, 7, 10) \o <<"-">> \o SubSeq(s, 1, 2)
                         \o <<"-">> \o SubSeq(s, 4, 5))
      [] OTHER -> NaT

(***************************************************************************)
(* DataFrames.                                                             *)
(***************************************************************************)
NoFrame == [columns |-> <<>>, rows |-> <<>>]

HasColumn(df, col) == \E i \in DOMAIN df.columns : df.columns[i] = col

ColumnCount(df, col) == Cardinality({i \in DOMAIN df.columns : df.columns[i] = col})

ColumnIndex(df, col) == CHOOSE i \in DOMAIN df.columns : df.columns[i] = col

\* df.rename(columns={old: 'KeyColumn'}): labels not found are left alone
RenameColumns(df, old) ==
    [df EXCEPT !.columns =
        [i \in DOMAIN df.columns |->
            IF df.columns[i] = old THEN KeyColumnName ELSE df.columns[i]]]

\* df.columns = df.columns.str.lower()
LowerColumns(df) ==
    [df EXCEPT !.columns = [i \in DOMAIN df.columns |-> Lower(df.columns[i])]]

\* [col.lower() for col in names]
LowerAll(names) == [i \in DOMAIN names |-> Lower(names[i])]

\* df[col] = pd.to_datetime(df[col], errors='coerce').dt.date
NormalizeColumn(df, col) ==
    [df EXCEPT !.rows =
        [r \in DOMAIN df.rows |->
            [i \in DOMAIN df.columns |->
                IF df.columns[i] = col THEN ToDate(df.rows[r][i])
                ELSE df.rows[r][i]]]]

\* normalize_dates(df, date_columns)
RECURSIVE normalize_dates(_, _)
normalize_dates(df, cols) ==
    IF cols = <<>> THEN df
    ELSE normalize_dates(
            IF HasColumn(df, Head(cols)) THEN NormalizeColumn(df, Head(cols))
            ELSE df,
            Tail(cols))

(***************************************************************************)
(* sort_values(by='keycolumn').reset_index(drop=True)                      *)
(***************************************************************************)
\* what the label lookup of sort_values/merge does with 'keycolumn'
KeyLookup(df) ==
    CASE ColumnCount(df, KeyColumnLower) = 0 -> "KeyError"
      [] ColumnCount(df, KeyColumnLower) = 1 -> "ok"
      [] OTHER -> "ValueError"

\* the key of a row: keys are ints, ordered as ints
KeyOf(df, row) == IntOf(row[ColumnIndex(df, KeyColumnLower)].v)

RemoveAt(s, i) == SubSeq(s, 1, i - 1) \o SubSeq(s, i + 1, Len(s))

SetMin(S) == CHOOSE x \in S : \A y \in S : x <= y
SetMax(S) == CHOOSE x \in S : \A y \in S : x >= y

\* The default kind='quicksort' is not a stable sort: rows come out in
\* ascending key order, the order among equal keys is whatever the sort of
\* the build leaves.  tie = "first" keeps equal keys in their original order,
\* tie = "last" reverses them.
RECURSIVE SortRows(_, _, _)
SortRows(df, rows, tie) ==
    IF rows = <<>> THEN <<>>
    ELSE LET mins == {i \in DOMAIN rows :
                        \A j \in DOMAIN rows : KeyOf(df, rows[i]) <= KeyOf(df, rows[j])}
             pick == IF tie = "first" THEN SetMin(mins) ELSE SetMax(mins)
         IN  <<rows[pick]>> \o SortRows(df, RemoveAt(rows, pick), tie)

sort_values(df, tie) == [df EXCEPT !.rows = SortRows(df, df.rows, tie)]

(***************************************************************************)
(* pd.merge(df1, df2, on='keycolumn', suffixes=('_file1', '_file2'),       *)
(*          how='outer', indicator=True)                                   *)
(***************************************************************************)
KeysOf(df) == {KeyOf(df, df.rows[r]) : r \in DOMAIN df.rows}

RowsWithKey(df, k) == SelectSeq(df.rows, LAMBDA row : KeyOf(df, row) = k)

RECURSIVE SortedSeq(_)
SortedSeq(S) ==
    IF S = {} THEN <<>>
    ELSE <<SetMin(S)>> \o SortedSeq(S \ {SetMin(S)})

\* labels both frames have, the key apart: these get the suffixes
Overlap(l, r) == (Range(l.columns) \cap Range(r.columns)) \ {KeyColumnLower}

NonKeyIndexes(df) ==
    SelectSeq([i \in DOMAIN df.columns |-> i],
              LAMBDA i : df.columns[i] # KeyColumnLower)

MergedColumns(l, r) ==
    [i \in DOMAIN l.columns |->
        IF l.columns[i] \in Overlap(l, r) THEN l.columns[i] \o SuffixFile1
        ELSE l.columns[i]]
    \o [n \in DOMAIN NonKeyIndexes(r) |->
        LET c == r.columns[NonKeyIndexes(r)[n]]
        IN  IF c \in Overlap(l, r) THEN c \o SuffixFile2 ELSE c]
    \o <<MergeName>>

RightCells(r, row) == [n \in DOMAIN NonKeyIndexes(r) |-> row[NonKeyIndexes(r)[n]]]

BothRow(l, r, lrow, rrow) == lrow \o RightCells(r, rrow) \o <<CatCell(Both)>>

LeftOnlyRow(l, r, lrow) ==
    lrow \o [n \in DOMAIN NonKeyIndexes(r) |-> NaN] \o <<CatCell(LeftOnly)>>

RightOnlyRow(l, r, rrow) ==
    [i \in DOMAIN l.columns |->
        IF l.columns[i] = KeyColumnLower
        THEN rrow[ColumnIndex(r, KeyColumnLower)] ELSE NaN]
    \o RightCells(r, rrow) \o <<CatCell(RightOnly)>>

\* how='inner': a key of one frame only gives no row
RowsOfKeyInner(l, r, k) ==
    LET L == RowsWithKey(l, k)
        R == RowsWithKey(r, k)
    IN  [n \in 1..(Len(L) * Len(R)) |->
            BothRow(l, r, L[((n - 1) \div Len(R)) + 1], R[((n - 1) % Len(R)) + 1])]

\* rows of a repeated key paired one to one instead of each with each
RowsOfKeyPairwise(l, r, k) ==
    LET L == RowsWithKey(l, k)
        R == RowsWithKey(r, k)
    IN  CASE L # <<>> /\ R # <<>> ->
                [n \in 1..(IF Len(L) < Len(R) THEN Len(L) ELSE Len(R)) |->
                    BothRow(l, r, L[n], R[n])]
          [] R = <<>> -> [n \in DOMAIN L |-> LeftOnlyRow(l, r, L[n])]
          [] OTHER -> [n \in DOMAIN R |-> RightOnlyRow(l, r, R[n])]

\* the joined rows of one key: every left row with every right row
RowsOfKey(l, r, k) ==
    LET L == RowsWithKey(l, k)
        R == RowsWithKey(r, k)
    IN  CASE L # <<>> /\ R # <<>> ->
                [n \in 1..(Len(L) * Len(R)) |->
                    BothRow(l, r, L[((n - 1) \div Len(R)) + 1],
                                  R[((n - 1) % Len(R)) + 1])]
          [] R = <<>> -> [n \in DOMAIN L |-> LeftOnlyRow(l, r, L[n])]
          [] OTHER -> [n \in DOMAIN R |-> RightOnlyRow(l, r, R[n])]

RECURSIVE MergedRows(_, _, _)
MergedRows(l, r, keys) ==
    IF keys = <<>> THEN <<>>
    ELSE RowsOfKey(l, r, Head(keys)) \o MergedRows(l, r, Tail(keys))

merge(l, r) ==
    [columns |-> MergedColumns(l, r),
     rows |-> MergedRows(l, r, SortedSeq(KeysOf(l) \cup KeysOf(r)))]

(***************************************************************************)
(* The report sections.                                                    *)
(***************************************************************************)
\* row[label] of a row of frame df
Cell(df, row, label) == row[ColumnIndex(df, label)]

MergeTag(df, row) == Cell(df, row, MergeName).v

RowsTagged(df, tags) == SelectSeq(df.rows, LAMBDA row : MergeTag(df, row) \in tags)

\* not-matched count that forgets the rows of the right frame
SummaryLeftOnly(m) ==
    [columns |-> <<DescriptionName, CountName>>,
     rows |-> << <<StrCell(MatchedRecords), IntCell(Len(RowsTagged(m, {Both})))>>,
                 <<StrCell(NotMatchedRecords), IntCell(Len(RowsTagged(m, {LeftOnly})))>> >>]

\* lines 60-66
Summary(m) ==
    [columns |-> <<DescriptionName, CountName>>,
     rows |-> << <<StrCell(MatchedRecords), IntCell(Len(RowsTagged(m, {Both})))>>,
                 <<StrCell(NotMatchedRecords),
                   IntCell(Len(RowsTagged(m, {LeftOnly, RightOnly})))>> >>]

\* comparison without .strip()
VerdictUntrimmed(c1, c2) ==
    LET val1 == Str(c1)
        val2 == Str(c2)
    IN  IF val1 = val2 THEN Matched ELSE val1 \o Bar \o val2

\* lines 77-82
Verdict(c1, c2) ==
    LET val1 == Strip(Str(c1))
        val2 == Strip(Str(c2))
    IN  IF val1 = val2 THEN Matched ELSE val1 \o Bar \o val2

\* lines 74-84, one compared column of one joined row
ColumnVerdict(m, row, column) ==
    LET col_file1 == column \o SuffixFile1
        col_file2 == column \o SuffixFile2
    IN  IF HasColumn(m, col_file1) /\ HasColumn(m, col_file2)
        THEN StrCell(Verdict(Cell(m, row, col_file1), Cell(m, row, col_file2)))
        ELSE StrCell(NotAvailable)

\* lines 72-85
RecordComparison(m, row, cols) ==
    <<Cell(m, row, KeyColumnLower)>>
    \o [i \in DOMAIN cols |-> ColumnVerdict(m, row, cols[i])]

\* lines 69-87
ComparisonDf(m, cols) ==
    LET both == RowsTagged(m, {Both})
    IN  [columns |-> <<KeyColumnName>> \o cols,
         rows |-> [i \in DOMAIN both |-> RecordComparison(m, both[i], cols)]]

\* merged_df[merged_df['_merge'] == tag]['keycolumn'].to_frame()
KeysTagged(m, tag) ==
    LET sel == RowsTagged(m, {tag})
    IN  [columns |-> <<KeyColumnLower>>,
         rows |-> [i \in DOMAIN sel |-> <<Cell(m, sel[i], KeyColumnLower)>>]]

\* 'Missing in File 1' taken from the left_only rows
MissingInFile1Swapped(m) == KeysTagged(m, LeftOnly)

MissingInFile1(m) == KeysTagged(m, RightOnly)

MissingInFile2(m) == KeysTagged(m, LeftOnly)

(***************************************************************************)
(* compare_files as one function of its arguments (tie: how the build's    *)
(* sort orders equal keys).                                                *)
(***************************************************************************)
Aligned(df, key_column, dates) ==
    normalize_dates(LowerColumns(RenameColumns(df, key_column)), LowerAll(dates))

compare_files(a, b, cfg, tie) ==
    LET n1 == Aligned(a, cfg.file1.key_column, cfg.date_columns)
        n2 == Aligned(b, cfg.file2.key_column, cfg.date_columns)
        m == merge(sort_values(n1, tie), sort_values(n2, tie))
        cols == LowerAll(cfg.columns_to_compare)
    IN  CASE KeyLookup(n1) # "ok" -> [error |-> KeyLookup(n1), sections |-> <<>>]
          [] KeyLookup(n2) # "ok" -> [error |-> KeyLookup(n2), sections |-> <<>>]
          [] OTHER ->
                [error |-> "none",
                 sections |-> <<Summary(m), ComparisonDf(m, cols),
                                MissingInFile1(m), MissingInFile2(m)>>]

(***************************************************************************)
(* The inputs: tables and configurations the program can be given.         *)
(***************************************************************************)
Sid == <<"i","d">>
SID == <<"I","D">>
Samt == <<"a","m","t">>
SAmt == <<"A","m","t">>
SAMT == <<"A","M","T">>
SYes == <<"Y","e","s">>
Syes == <<"y","e","s">>
SYesPadded == <<" ","Y","e","s"," ">>
SIso == <<"2","0","2","4","-","0","1","-","0","1">>
SUs == <<"0","1","/","0","1","/","2","0","2","4">>

SeqsUpTo(S, n) == UNION {[1..k -> S] : k \in 0..n}

Objects == {"arg1", "arg2", "ren1", "ren2", "srt1", "srt2"}

Config(k1, k2, cmp, dates) ==
    [file1 |-> [key_column |-> k1], file2 |-> [key_column |-> k2],
     columns_to_compare |-> cmp, date_columns |-> dates]

\* the state in which main calls compare_files(df1, df2, config)
Entry(a, b, cfg, tie) ==
    /\ heap = [o \in Objects |-> CASE o = "arg1" -> a [] o = "arg2" -> b [] OTHER -> NoFrame]
    /\ df1 = "arg1"
    /\ df2 = "arg2"
    /\ config = cfg
    /\ columns_to_compare = <<>>
    /\ date_columns = <<>>
    /\ merged_df = NoFrame
    /\ summary = NoFrame
    /\ comparison_df = NoFrame
    /\ missing_in_file1 = NoFrame
    /\ missing_in_file2 = NoFrame
    /\ ret = <<>>
    /\ pc = "l34"
    /\ error = "none"
    /\ tieBreak = tie
    /\ repeated = FALSE
    /\ prevOutcome = [error |-> "unset", sections |-> <<>>]

\* Tables with duplicate and one-sided keys: columns id, amt; up to MaxRows
\* rows.  Key 1 can be in both tables, key 3 in A only, key 2 in B only, and
\* each can repeat within a table.
KeyValuesA == {1, 3}
KeyValuesB == {1, 2}

KeyedRows(keys, values) ==
    SeqsUpTo({<<IntCell(k), StrCell(v)>> : k \in keys, v \in values}, MaxRows)

InitKeys ==
    \E ra \in KeyedRows(KeyValuesA, {SYes, Syes}),
       rb \in KeyedRows(KeyValuesB, {SYes, SYesPadded}),
       tie \in {"first", "last"} :
        Entry([columns |-> <<Sid, Samt>>, rows |-> ra],
              [columns |-> <<Sid, Samt>>, rows |-> rb],
              Config(Sid, Sid, <<Samt>>, <<>>), tie)

\* One row on each side with the same key, every kind of cell value.
CellValues ==
    {StrCell(SYes), StrCell(Syes), StrCell(SYesPadded), StrCell(SIso), StrCell(SUs),
     NaN, NoneCell, NaT}

InitValues ==
    \E va \in CellValues, vb \in CellValues, dates \in {<<>>, <<Samt>>} :
        Entry([columns |-> <<Sid, Samt>>, rows |-> << <<IntCell(1), va>> >>],
              [columns |-> <<Sid, Samt>>, rows |-> << <<IntCell(1), vb>> >>],
              Config(Sid, Sid, <<Samt>>, dates), "first")

\* One row on each side, every layout of headers: the key column under the
\* configured name, in another letter case, absent, or beside a column that
\* is already called KeyColumn; the compared column in either letter case,
\* absent, or under a name that ends in a join suffix.  No table has two
\* headers that are equal up to letter case.
KeyParts == {<<>>, <<Sid>>, <<SID>>, <<KeyColumnName>>, <<Sid, KeyColumnLower>>}

DataParts ==
    {<<>>} \cup {<<[h |-> h, c |-> StrCell(v)]>> : h \in {Samt, SAmt}, v \in {SYes, SIso}}
    \cup {<<[h |-> Samt \o SuffixFile1, c |-> StrCell(SYes)]>>,
          <<[h |-> Samt \o SuffixFile2, c |-> StrCell(Syes)]>>}

Layouts ==
    {[columns |-> kp \o [i \in DOMAIN dp |-> dp[i].h],
      rows |-> << [i \in DOMAIN kp |-> IntCell(1)] \o [i \in DOMAIN dp |-> dp[i].c] >>] :
        kp \in KeyParts, dp \in DataParts}

InitCols ==
    \E a \in Layouts, b \in Layouts, k1 \in {Sid, SID},
       cmp \in {<<Samt>>, <<SAmt, Sid>>}, dates \in {<<>>, <<SAMT>>} :
        Entry(a, b, Config(k1, Sid, cmp, dates), "first")

Init == InitKeys \/ InitValues \/ InitCols

(***************************************************************************)
(* compare_files, statement by statement.                                  *)
(***************************************************************************)
\* rename(..., inplace=True): the receiver itself is renamed
RenameInPlace(receiver, fresh) == receiver

\* DataFrame.rename returns a new frame and leaves its receiver alone
RenameResult(receiver, fresh) == fresh

\* lines 34-36
ReadConfig ==
    /\ pc = "l34"
    /\ columns_to_compare' = config.columns_to_compare
    /\ date_columns' = config.date_columns
    /\ pc' = "l39"
    /\ UNCHANGED <<heap, df1, df2, config, merged_df, summary, comparison_df,
                   missing_in_file1, missing_in_file2, ret, error, tieBreak,
                   repeated, prevOutcome>>

\* line 39
RenameKey1 ==
    /\ pc = "l39"
    /\ LET o == RenameResult(df1, "ren1")
       IN  /\ heap' = [heap EXCEPT ![o] = RenameColumns(heap[df1], config.file1.key_column)]
           /\ df1' = o
    /\ pc' = "l40"
    /\ UNCHANGED <<df2, config, columns_to_compare, date_columns, merged_df, summary,
                   comparison_df, missing_in_file1, missing_in_file2, ret, error,
                   tieBreak, repeated, prevOutcome>>

\* line 40
RenameKey2 ==
    /\ pc = "l40"
    /\ LET o == RenameResult(df2, "ren2")
       IN  /\ heap' = [heap EXCEPT ![o] = RenameColumns(heap[df2], config.file2.key_column)]
           /\ df2' = o
    /\ pc' = "l43"
    /\ UNCHANGED <<df1, config, columns_to_compare, date_columns, merged_df, summary,
                   comparison_df, missing_in_file1, missing_in_file2, ret, error,
                   tieBreak, repeated, prevOutcome>>

\* lines 43-46
LowerNames ==
    /\ pc = "l43"
    /\ heap' = [o \in Objects |->
                    IF o \in {df1, df2} THEN LowerColumns(heap[o]) ELSE heap[o]]
    /\ columns_to_compare' = LowerAll(columns_to_compare)
    /\ date_columns' = LowerAll(date_columns)
    /\ pc' = "l49"
    /\ UNCHANGED <<df1, df2, config, merged_df, summary, comparison_df,
                   missing_in_file1, missing_in_file2, ret, error, tieBreak,
                   repeated, prevOutcome>>

\* line 49: normalize_dates assigns into the frame it is given and returns it
NormalizeDates1 ==
    /\ pc = "l49"
    /\ heap' = [heap EXCEPT ![df1] = normalize_dates(heap[df1], date_columns)]
    /\ pc' = "l50"
    /\ UNCHANGED <<df1, df2, config, columns_to_compare, date_columns, merged_df,
                   summary, comparison_df, missing_in_file1, missing_in_file2, ret,
                   error, tieBreak, repeated, prevOutcome>>

\* line 50
NormalizeDates2 ==
    /\ pc = "l50"
    /\ heap' = [heap EXCEPT ![df2] = normalize_dates(heap[df2], date_columns)]
    /\ pc' = "l53"
    /\ UNCHANGED <<df1, df2, config, columns_to_compare, date_columns, merged_df,
                   summary, comparison_df, missing_in_file1, missing_in_file2, ret,
                   error, tieBreak, repeated, prevOutcome>>

\* line 53: raises when 'keycolumn' is no label, or not a unique one
Sort1 ==
    /\ pc = "l53"
    /\ IF KeyLookup(heap[df1]) = "ok"
       THEN /\ heap' = [heap EXCEPT !["srt1"] = sort_values(heap[df1], tieBreak)]
            /\ df1' = "srt1"
            /\ pc' = "l54"
            /\ error' = error
       ELSE /\ pc' = "failed"
            /\ error' = KeyLookup(heap[df1])
            /\ UNCHANGED <<heap, df1>>
    /\ UNCHANGED <<df2, config, columns_to_compare, date_columns, merged_df, summary,
                   comparison_df, missing_in_file1, missing_in_file2, ret, tieBreak,
                   repeated, prevOutcome>>

\* line 54
Sort2 ==
    /\ pc = "l54"
    /\ IF KeyLookup(heap[df2]) = "ok"
       THEN /\ heap' = [heap EXCEPT !["srt2"] = sort_values(heap[df2], tieBreak)]
            /\ df2' = "srt2"
            /\ pc' = "l57"
            /\ error' = error
       ELSE /\ pc' = "failed"
            /\ error' = KeyLookup(heap[df2])
            /\ UNCHANGED <<heap, df2>>
    /\ UNCHANGED <<df1, config, columns_to_compare, date_columns, merged_df, summary,
                   comparison_df, missing_in_file1, missing_in_file2, ret, tieBreak,
                   repeated, prevOutcome>>

\* line 57
Merge ==
    /\ pc = "l57"
    /\ merged_df' = merge(heap[df1], heap[df2])
    /\ pc' = "l60"
    /\ UNCHANGED <<heap, df1, df2, config, columns_to_compare, date_columns, summary,
                   comparison_df, missing_in_file1, missing_in_file2, ret, error,
                   tieBreak, repeated, prevOutcome>>

\* lines 60-66
Summarize ==
    /\ pc = "l60"
    /\ summary' = Summary(merged_df)
    /\ pc' = "l69"
    /\ UNCHANGED <<heap, df1, df2, config, columns_to_compare, date_columns, merged_df,
                   comparison_df, missing_in_file1, missing_in_file2, ret, error,
                   tieBreak, repeated, prevOutcome>>

\* lines 69-87
Compare ==
    /\ pc = "l69"
    /\ comparison_df' = ComparisonDf(merged_df, columns_to_compare)
    /\ pc' = "l90"
    /\ UNCHANGED <<heap, df1, df2, config, columns_to_compare, date_columns, merged_df,
                   summary, missing_in_file1, missing_in_file2, ret, error, tieBreak,
                   repeated, prevOutcome>>

\* lines 90-91
MissingKeys ==
    /\ pc = "l90"
    /\ missing_in_file1' = MissingInFile1(merged_df)
    /\ missing_in_file2' = MissingInFile2(merged_df)
    /\ pc' = "l93"
    /\ UNCHANGED <<heap, df1, df2, config, columns_to_compare, date_columns, merged_df,
                   summary, comparison_df, ret, error, tieBreak, repeated, prevOutcome>>

\* line 93
Return ==
    /\ pc = "l93"
    /\ ret' = <<summary, comparison_df, missing_in_file1, missing_in_file2>>
    /\ pc' = "done"
    /\ UNCHANGED <<heap, df1, df2, config, columns_to_compare, date_columns, merged_df,
                   summary, comparison_df, missing_in_file1, missing_in_file2, error,
                   tieBreak, repeated, prevOutcome>>

\* The caller calls compare_files a second time with the same two frames and
\* the same config; the first call's locals and temporaries are gone.
CallAgain ==
    /\ pc \in {"done", "failed"}
    /\ ~repeated
    /\ repeated' = TRUE
    /\ prevOutcome' = [error |-> error, sections |-> ret]
    /\ heap' = [o \in Objects |-> IF o \in {"arg1", "arg2"} THEN heap[o] ELSE NoFrame]
    /\ df1' = "arg1"
    /\ df2' = "arg2"
    /\ columns_to_compare' = <<>>
    /\ date_columns' = <<>>
    /\ merged_df' = NoFrame
    /\ summary' = NoFrame
    /\ comparison_df' = NoFrame
    /\ missing_in_file1' = NoFrame
    /\ missing_in_file2' = NoFrame
    /\ ret' = <<>>
    /\ pc' = "l34"
    /\ error' = "none"
    /\ UNCHANGED <<config, tieBreak>>

Next ==
    \/ ReadConfig
    \/ RenameKey1
    \/ RenameKey2
    \/ LowerNames
    \/ NormalizeDates1
    \/ NormalizeDates2
    \/ Sort1
    \/ Sort2
    \/ Merge
    \/ Summarize
    \/ Compare
    \/ MissingKeys
    \/ Return
    \/ CallAgain

Spec == Init /\ [][Next]_vars

(***************************************************************************)
(* Vocabulary of the properties: the caller's tables and the returned      *)
(* report, read without the operators that model compare_files.            *)
(***************************************************************************)
TableA == heap["arg1"]
TableB == heap["arg2"]

Returned == pc = "done"

\* both tables have the key column their configuration names
KeyConfigured ==
    /\ HasColumn(TableA, config.file1.key_column)
    /\ HasColumn(TableB, config.file2.key_column)

KeyAt(df, key_column, r) == IntOf(df.rows[r][ColumnIndex(df, key_column)].v)

KeysA == {KeyAt(TableA, config.file1.key_column, r) : r \in DOMAIN TableA.rows}
KeysB == {KeyAt(TableB, config.file2.key_column, r) : r \in DOMAIN TableB.rows}

RowsAOf(k) == {r \in DOMAIN TableA.rows : KeyAt(TableA, config.file1.key_column, r) = k}
RowsBOf(k) == {r \in DOMAIN TableB.rows : KeyAt(TableB, config.file2.key_column, r) = k}

SummaryCount(i) == IntOf(ret[1].rows[i][2].v)
DetailRows == ret[2].rows
MissingFile1Keys == {IntOf(ret[3].rows[r][1].v) : r \in DOMAIN ret[3].rows}
MissingFile2Keys == {IntOf(ret[4].rows[r][1].v) : r \in DOMAIN ret[4].rows}

DetailRowsOf(k) == {r \in DOMAIN DetailRows : IntOf(DetailRows[r][1].v) = k}

Occurrences(seq, x) == Cardinality({i \in DOMAIN seq : seq[i] = x})

(***************************************************************************)
(* Summary counts.                                                         *)
(***************************************************************************)
JoinedPairs ==
    {ij \in (DOMAIN TableA.rows) \X (DOMAIN TableB.rows) :
        KeyAt(TableA, config.file1.key_column, ij[1])
            = KeyAt(TableB, config.file2.key_column, ij[2])}

UnpairedRowsA ==
    {r \in DOMAIN TableA.rows : KeyAt(TableA, config.file1.key_column, r) \notin KeysB}

UnpairedRowsB ==
    {r \in DOMAIN TableB.rows : KeyAt(TableB, config.file2.key_column, r) \notin KeysA}

\* C1 as stated: 'Matched Records' is the number of keys present in both
\* tables and 'Not Matched Records' the number of keys found in one table
\* only, also when a key occurs in several rows.
C1_CountsAreKeyCounts ==
    (Returned /\ KeyConfigured) =>
        /\ SummaryCount(1) = Cardinality(KeysA \cap KeysB)
        /\ SummaryCount(2) = Cardinality(KeysA \ KeysB) + Cardinality(KeysB \ KeysA)

\* C1 amended: 'Matched Records' is the number of joined rows tagged both,
\* one per pair of a row of A and a row of B with the same key, and
\* 'Not Matched Records' is the number of rows of A whose key B lacks plus
\* the number of rows of B whose key A lacks.  Every joined row counts and
\* has its detail row, whatever its verdicts.  (With no key repeated inside
\* a table these are the key counts.)
C1_CountsAreJoinedRows ==
    (Returned /\ KeyConfigured) =>
        /\ SummaryCount(1) = Cardinality(JoinedPairs)
        /\ SummaryCount(2) = Cardinality(UnpairedRowsA) + Cardinality(UnpairedRowsB)
        /\ SummaryCount(1) = Len(DetailRows)

\* a shared key repeats, so joined rows outnumber shared keys, a row has no
\* counterpart, and a counted row has no verdict 'Matched'
C1_Witness ==
    /\ Returned /\ KeyConfigured
    /\ SummaryCount(1) > Cardinality(KeysA \cap KeysB)
    /\ SummaryCount(2) > 0
    /\ \E r \in DOMAIN DetailRows :
          \A i \in 2..Len(DetailRows[r]) : DetailRows[r][i] # StrCell(Matched)

(***************************************************************************)
(* Missing keys.                                                           *)
(***************************************************************************)
\* C2: 'Missing in File 1' holds exactly the keys found only in table B,
\* 'Missing in File 2' exactly the keys found only in table A; no key of
\* both tables is in either.
C2_MissingKeySets ==
    (Returned /\ KeyConfigured) =>
        /\ MissingFile1Keys = KeysB \ KeysA
        /\ MissingFile2Keys = KeysA \ KeysB

C2_Witness ==
    /\ Returned /\ KeyConfigured
    /\ KeysA \cap KeysB # {}
    /\ KeysB \ KeysA # {}
    /\ KeysA \ KeysB # {}
    /\ MissingFile1Keys # MissingFile2Keys

\* C3: with disjoint key sets the matched count is 0, the detail table is
\* empty, and each missing-key result has as many entries as the table the
\* keys come from has rows.
C3_DisjointKeys ==
    (Returned /\ KeyConfigured /\ KeysA \cap KeysB = {}) =>
        /\ SummaryCount(1) = 0
        /\ DetailRows = <<>>
        /\ Len(ret[4].rows) = Len(TableA.rows)
        /\ Len(ret[3].rows) = Len(TableB.rows)

\* disjoint keys, one of them in two rows of A
C3_Witness ==
    /\ Returned /\ KeyConfigured
    /\ KeysA \cap KeysB = {}
    /\ TableB.rows # <<>>
    /\ Len(TableA.rows) > Cardinality(KeysA)

(***************************************************************************)
(* Duplicate keys.                                                         *)
(***************************************************************************)
\* the joined row of a row of the left frame and a row of the right frame
Combination(l, r, lrow, rrow) ==
    lrow \o [n \in DOMAIN NonKeyIndexes(r) |-> rrow[NonKeyIndexes(r)[n]]]
         \o <<CatCell(Both)>>

\* C9: a key in m rows of A and n rows of B gives all m*n combinations in
\* the join (each pair of rows as often as the pair occurs), and as many
\* detail rows; none is dropped.
C9_AllCombinations ==
    (Returned /\ KeyConfigured) =>
        /\ \A i \in DOMAIN heap[df1].rows, j \in DOMAIN heap[df2].rows :
              LET a == heap[df1].rows[i]
                  b == heap[df2].rows[j]
              IN  KeyOf(heap[df1], a) = KeyOf(heap[df2], b) =>
                    Occurrences(merged_df.rows, Combination(heap[df1], heap[df2], a, b))
                        = Occurrences(heap[df1].rows, a) * Occurrences(heap[df2].rows, b)
        /\ \A k \in KeysA \cap KeysB :
              /\ Cardinality({r \in DOMAIN merged_df.rows :
                                 KeyOf(merged_df, merged_df.rows[r]) = k})
                    = Cardinality(RowsAOf(k)) * Cardinality(RowsBOf(k))
              /\ Cardinality(DetailRowsOf(k))
                    = Cardinality(RowsAOf(k)) * Cardinality(RowsBOf(k))

\* a key in two rows of each table, the four joined rows all different
C9_Witness ==
    /\ Returned /\ KeyConfigured
    /\ \E k \in KeysA \cap KeysB :
          /\ Cardinality(RowsAOf(k)) = 2
          /\ Cardinality(RowsBOf(k)) = 2
          /\ Cardinality({merged_df.rows[r] : r \in DOMAIN merged_df.rows}) = 4

(***************************************************************************)
(* Verdicts.                                                               *)
(***************************************************************************)
\* the joined rows tagged both (the tag is the last cell of a joined row)
JoinedBoth == SelectSeq(merged_df.rows, LAMBDA row : row[Len(row)] = CatCell(Both))

ComparedOnBothSides(i) ==
    /\ HasColumn(merged_df, columns_to_compare[i] \o SuffixFile1)
    /\ HasColumn(merged_df, columns_to_compare[i] \o SuffixFile2)

ValueA(r, i) == JoinedBoth[r][ColumnIndex(merged_df, columns_to_compare[i] \o SuffixFile1)]
ValueB(r, i) == JoinedBoth[r][ColumnIndex(merged_df, columns_to_compare[i] \o SuffixFile2)]

VerdictAt(r, i) == DetailRows[r][i + 1].v

SYesBarYes == <<"Y","e","s"," ","|"," ","y","e","s">>

\* C4: for a key-matched row and a compared column present on both sides the
\* verdict is 'Matched' exactly when the two values' strings are equal after
\* trimming, otherwise 'a | b' of the trimmed strings; case-sensitive, so
\* " Yes " against "Yes" is Matched and "Yes" against "yes" is "Yes | yes".
C4_VerdictIsTrimmedEquality ==
    Returned =>
        /\ Len(DetailRows) = Len(JoinedBoth)
        /\ \A r \in DOMAIN DetailRows, i \in DOMAIN columns_to_compare :
              ComparedOnBothSides(i) =>
                LET a == ValueA(r, i)
                    b == ValueB(r, i)
                IN  /\ (VerdictAt(r, i) = Matched) <=> (Strip(Str(a)) = Strip(Str(b)))
                    /\ VerdictAt(r, i) # Matched =>
                          VerdictAt(r, i) = Strip(Str(a)) \o Bar \o Strip(Str(b))
                    /\ (a = StrCell(SYesPadded) /\ b = StrCell(SYes)) =>
                          VerdictAt(r, i) = Matched
                    /\ (a = StrCell(SYes) /\ b = StrCell(Syes)) =>
                          VerdictAt(r, i) = SYesBarYes
                    /\ (a = StrCell(SYesPadded) /\ b = StrCell(Syes)) =>
                          VerdictAt(r, i) = SYesBarYes

\* one report with "Yes" against " Yes " Matched and "yes" against " Yes "
\* rendered from the trimmed strings
C4_Witness ==
    /\ Returned
    /\ \E r \in DOMAIN DetailRows, i \in DOMAIN columns_to_compare :
          /\ ComparedOnBothSides(i)
          /\ ValueA(r, i) = StrCell(SYes) /\ ValueB(r, i) = StrCell(SYesPadded)
          /\ VerdictAt(r, i) = Matched
    /\ \E r \in DOMAIN DetailRows, i \in DOMAIN columns_to_compare :
          /\ ComparedOnBothSides(i)
          /\ ValueA(r, i) = StrCell(Syes) /\ ValueB(r, i) = StrCell(SYesPadded)
          /\ VerdictAt(r, i) = <<"y","e","s"," ","|"," ","Y","e","s">>

IsMissing(c) == c.kind \in {"NaN", "None", "NaT"}

\* C7: on a compared column present on both sides two missing values give
\* 'Matched', whatever marker each side carries, and a missing value against
\* a present one gives a mismatch.
C7_MissingValues ==
    Returned =>
        \A r \in DOMAIN DetailRows, i \in DOMAIN columns_to_compare :
            ComparedOnBothSides(i) =>
                /\ (IsMissing(ValueA(r, i)) /\ IsMissing(ValueB(r, i))) =>
                      VerdictAt(r, i) = Matched
                /\ (IsMissing(ValueA(r, i)) # IsMissing(ValueB(r, i))) =>
                      VerdictAt(r, i) \notin {Matched, NotAvailable}

(***************************************************************************)
(* Column names.                                                           *)
(***************************************************************************)
Finished == pc \in {"done", "failed"}

FoldedConfig ==
    [config EXCEPT !.columns_to_compare = LowerAll(@), !.date_columns = LowerAll(@)]

\* the verdicts of a call: whether it returned, and the detail rows if so
Verdicts(outcome) ==
    [returned |-> outcome.error = "none",
     detail |-> IF outcome.error = "none" THEN outcome.sections[2].rows ELSE <<>>]

\* C5: the same call with every header of both tables and every name of
\* columns_to_compare and date_columns in lower case gives the same verdicts.
C5_HeaderCaseIrrelevant ==
    Finished =>
        Verdicts(compare_files(LowerColumns(TableA), LowerColumns(TableB),
                               FoldedConfig, tieBreak))
            = Verdicts([error |-> error, sections |-> ret])

\* every header but the configured key column's in lower case
LowerButKey(df, key_column) ==
    [df EXCEPT !.columns =
        [i \in DOMAIN df.columns |->
            IF df.columns[i] = key_column THEN key_column ELSE Lower(df.columns[i])]]

\* no header differs from the configured key column's name in letter case only
KeySpelledAsConfigured(df, key_column) ==
    \A i \in DOMAIN df.columns :
        Lower(df.columns[i]) = Lower(key_column) => df.columns[i] = key_column

\* The part of C5 the code keeps: when the key columns' headers are spelled
\* as the configuration spells them, the letter case of the other headers
\* and of the configured names does not change the verdicts.
C5_NonKeyHeaderCaseIrrelevant ==
    (/\ Finished
     /\ KeySpelledAsConfigured(TableA, config.file1.key_column)
     /\ KeySpelledAsConfigured(TableB, config.file2.key_column)) =>
        Verdicts(compare_files(LowerButKey(TableA, config.file1.key_column),
                               LowerButKey(TableB, config.file2.key_column),
                               FoldedConfig, tieBreak))
            = Verdicts([error |-> error, sections |-> ret])

LoweredHeaders(df) == {Lower(df.columns[i]) : i \in DOMAIN df.columns}

\* C6: a compared column that only one table has, or neither, is
\* 'Not Available' in every detail row.
C6_OneSidedColumnNotAvailable ==
    Returned =>
        \A i \in DOMAIN config.columns_to_compare :
            LET c == Lower(config.columns_to_compare[i])
            IN  (c \notin LoweredHeaders(TableA) \/ c \notin LoweredHeaders(TableB)) =>
                    \A r \in DOMAIN DetailRows : VerdictAt(r, i) = NotAvailable

(***************************************************************************)
(* Missing key column.                                                     *)
(***************************************************************************)
\* C8: when a table lacks the key column its configuration names, the call
\* never joins (on whatever other column) and returns no report.
C8_MissingKeyAborts ==
    ~KeyConfigured =>
        /\ merged_df = NoFrame
        /\ ret = <<>>
        /\ pc # "done"

(***************************************************************************)
(* The caller's tables.                                                    *)
(***************************************************************************)
\* C10: no step of compare_files changes either of the caller's tables,
\* whether the call returns or fails, and the second call on them ends as
\* the first did, with the same four sections.
C10_InputsUnchanged ==
    [][/\ heap'["arg1"] = heap["arg1"]
       /\ heap'["arg2"] = heap["arg2"]
       /\ (repeated' /\ pc' \in {"done", "failed"}) =>
             [error |-> error', sections |-> ret'] = prevOutcome']_vars

\* the second call has returned; the first one worked on frames whose key
\* header, letter case and date cells all differ from the caller's
C10_Witness ==
    /\ repeated
    /\ Returned
    /\ prevOutcome.error = "none"
    /\ heap[df1].columns # TableA.columns
    /\ \E r \in DOMAIN TableA.rows : heap[df1].rows[r] # TableA.rows[r]
    /\ \E i \in DOMAIN TableA.columns : TableA.columns[i] # Lower(TableA.columns[i])

====
